---- MODULE Spec2Model ----
(***************************************************************************)
(* HYROS Doc Rewriter: the batch rewrite endpoint (app/api/rewrite),       *)
(* its Validation Gate (lib/validation), the Remote Rewrite Client         *)
(* (lib/claude) and the Archive Assembler (lib/zip).                       *)
(*                                                                         *)
(* Strings are modelled by what the code reads of them:                    *)
(*   - a file name is a sequence of one-character strings;                 *)
(*   - a document content is [ch, len], the string of len copies of ch     *)
(*     (ch = " " is whitespace), so that length and trim() are computed;   *)
(*   - an error description is a sequence of words, so that                *)
(*     message.includes(signature) is computed.                            *)
(* An optional value (T | null) is <<>> or <<v>>.                          *)
(***************************************************************************)
EXTENDS Integers, Sequences, FiniteSets, TLC

\* ---------------------------------------------------------------- bounds
\* longest batch whose documents are drawn freely from Docs
MaxDocs == 2
\* the remote answers are explored exhaustively for the documents up to this
\* position of a batch; later documents are answered with CanonText
ExploreDepth == 2
\* a generated batch of MAX_FILES - Slack .. MAX_FILES + Slack documents
Slack == 1

\* ------------------------------------------------------ program constants
MAX_FILES == 200
MAX_TOTAL_SIZE_BYTES == 10 * 1024 * 1024
MAX_RETRIES == 5

\* ------------------------------------------------------------- strings
Str(ch, len) == [ch |-> ch, len |-> len]
EmptyStr == Str(" ", 0)
\* String.prototype.trim
Trim(s) == IF s.ch = " " THEN EmptyStr ELSE s
\* !s for a string: the empty string is falsy
Falsy(s) == s.len = 0

LowerChar(c) ==
    CASE c = "T" -> "t"
      [] c = "X" -> "x"
      [] c = "M" -> "m"
      [] c = "D" -> "d"
      [] c = "A" -> "a"
      [] c = "B" -> "b"
      [] OTHER -> c
\* String.prototype.toLowerCase
ToLowerCase(name) == [i \in 1..Len(name) |-> LowerChar(name[i])]
\* String.prototype.endsWith
EndsWith(name, suffix) ==
    /\ Len(name) >= Len(suffix)
    /\ SubSeq(name, Len(name) - Len(suffix) + 1, Len(name)) = suffix

DotTxt == <<".", "t", "x", "t">>

\* ------------------------------------------------------------ the inputs
Names ==
    { <<"a", ".", "t", "x", "t">>,
      <<"b", ".", "T", "X", "T">>,
      <<"a", ".", "m", "d">>,
      <<"t", "x", "t">> }
Contents ==
    { EmptyStr, Str(" ", 2), Str("x", 1), Str("x", MAX_TOTAL_SIZE_BYTES - 1) }
Docs == [name : Names, content : Contents]

RECURSIVE SeqsUpTo(_, _)
SeqsUpTo(S, n) ==
    IF n = 0 THEN { <<>> }
    ELSE LET shorter == SeqsUpTo(S, n - 1)
         IN  shorter \cup { Append(s, x) : s \in { t \in shorter : Len(t) = n - 1 }, x \in S }

DigitChar(d) ==
    CASE d = 0 -> "0" [] d = 1 -> "1" [] d = 2 -> "2" [] d = 3 -> "3"
      [] d = 4 -> "4" [] d = 5 -> "5" [] d = 6 -> "6" [] d = 7 -> "7"
      [] d = 8 -> "8" [] d = 9 -> "9"
\* the generated document number i: "<3 digits>.txt" holding one character
GenDoc(i) ==
    [name |-> << DigitChar(i \div 100), DigitChar((i \div 10) % 10), DigitChar(i % 10) >> \o DotTxt,
     content |-> Str("x", 1)]
GenBatch(n) == [i \in 1..n |-> GenDoc(i)]

SmallBatches == SeqsUpTo(Docs, MaxDocs)
LargeBatches == { GenBatch(n) : n \in (MAX_FILES - Slack)..(MAX_FILES + Slack) }

RefFile(c) == [content |-> Str(c, 1), filename |-> <<"r", ".", "m", "d">>, savedAt |-> "t0"]
\* ReferenceSlots (lib/storage): each slot is null or a ReferenceFile
ReferenceSlots ==
    [rulesSystem : { <<>>, << RefFile("RULES") >> },
     rewriteGuide : { <<>>, << RefFile("GUIDE") >> },
     staffDocs : { <<>>, << RefFile("STAFF") >> }]
FullRefs ==
    [rulesSystem |-> << RefFile("RULES") >>,
     rewriteGuide |-> << RefFile("GUIDE") >>,
     staffDocs |-> << RefFile("STAFF") >>]

\* what request.json() yields
BodyKinds == { "ok", "unparseable", "noReferences", "noFiles" }

\* texts the remote service answers with
CanonText == Str("y", 1)
Texts == { CanonText, Str("z", 2), EmptyStr }
\* descriptions of the errors the remote service raises
RemoteErrors ==
    { << "529", "Overloaded" >>,
      << "401", "invalid_api_key" >>,
      << "400", "bad", "request" >> }

\* ------------------------------------------------------ lib/validation.ts
Invalid(error) == [valid |-> FALSE, error |-> << error >>, files |-> <<>>]
NamesOf(files) == [k \in 1..Len(files) |-> files[k].name]
\* the valid result as the code would be if it returned the documents with
\* their names put to lower case
ValidLowercased(files) ==
    [valid |-> TRUE, error |-> <<>>,
     files |-> [k \in 1..Len(files) |-> [files[k] EXCEPT !.name = ToLowerCase(@)]]]
\* { valid: true, files }, lines 79-82: the array it was given
Valid(files) == [valid |-> TRUE, error |-> <<>>, files |-> files]

RECURSIVE SumLengths(_, _, _)
\* files.reduce((sum, f) => sum + f.content.length, 0), over files[lo..hi]
\* (the range is halved to keep the evaluation shallow; the sum is the same)
SumLengths(files, lo, hi) ==
    IF lo > hi THEN 0
    ELSE IF lo = hi THEN files[lo].content.len
    ELSE LET mid == (lo + hi) \div 2
         IN  SumLengths(files, lo, mid) + SumLengths(files, mid + 1, hi)
totalSize(files) == SumLengths(files, 1, Len(files))

\* the filter of lines 44-46
HasTxtExtension(f) == EndsWith(ToLowerCase(f.name), DotTxt)
\* the filter of line 57, as the code would be without trim()
IsEmptyFileNoTrim(f) == Falsy(f.content)
\* the filter of line 57
IsEmptyFile(f) == Falsy(f.content) \/ Trim(f.content) = EmptyStr
\* the test of line 35, as the code would be with >=
TooManyFilesOffByOne(files) == Len(files) >= MAX_FILES
\* the test of line 35
TooManyFiles(files) == Len(files) > MAX_FILES
\* the test of line 70
TotalSizeTooLarge(files) == totalSize(files) > MAX_TOTAL_SIZE_BYTES

\* validateFiles as the code would be with the checks for empty files and for
\* file types in the other order
validateFilesEmptyFirst(files) ==
    LET invalidFiles == SelectSeq(files, LAMBDA f : ~HasTxtExtension(f))
        emptyFiles == SelectSeq(files, IsEmptyFile)
    IN  IF Len(files) = 0
        THEN Invalid([text |-> "No files provided"])
        ELSE IF TooManyFiles(files)
        THEN Invalid([text |-> "Too many files. Maximum is {MAX_FILES}, got {n}",
                      max |-> MAX_FILES, got |-> Len(files)])
        ELSE IF Len(emptyFiles) > 0
        THEN Invalid([text |-> "Empty files detected: {names}",
                      names |-> NamesOf(emptyFiles)])
        ELSE IF Len(invalidFiles) > 0
        THEN Invalid([text |-> "Invalid file types: {names}. Only .txt files are accepted.",
                      names |-> NamesOf(invalidFiles)])
        ELSE IF TotalSizeTooLarge(files)
        THEN Invalid([text |-> "Total file size too large. Maximum is 10MB, got {sizeMB}MB",
                      size |-> totalSize(files)])
        ELSE Valid(files)

validateFiles(files) ==
    LET invalidFiles == SelectSeq(files, LAMBDA f : ~HasTxtExtension(f))
        emptyFiles == SelectSeq(files, IsEmptyFile)
    IN  IF Len(files) = 0
        THEN Invalid([text |-> "No files provided"])
        ELSE IF TooManyFiles(files)
        THEN Invalid([text |-> "Too many files. Maximum is {MAX_FILES}, got {n}",
                      max |-> MAX_FILES, got |-> Len(files)])
        ELSE IF Len(invalidFiles) > 0
        THEN Invalid([text |-> "Invalid file types: {names}. Only .txt files are accepted.",
                      names |-> NamesOf(invalidFiles)])
        ELSE IF Len(emptyFiles) > 0
        THEN Invalid([text |-> "Empty files detected: {names}",
                      names |-> NamesOf(emptyFiles)])
        ELSE IF TotalSizeTooLarge(files)
        THEN Invalid([text |-> "Total file size too large. Maximum is 10MB, got {sizeMB}MB",
                      size |-> totalSize(files)])
        ELSE Valid(files)

\* --------------------------------------------------------- lib/prompts.ts
buildSystemPrompt(refs) ==
    << "You are a documentation converter" >>
    \o (IF refs.rulesSystem # <<>>
        THEN << "<rules_system>", refs.rulesSystem[1].content >> ELSE <<>>)
    \o (IF refs.rewriteGuide # <<>>
        THEN << "<rewriting_guide>", refs.rewriteGuide[1].content >> ELSE <<>>)
    \o (IF refs.staffDocs # <<>>
        THEN << "<staff_docs>", refs.staffDocs[1].content >> ELSE <<>>)
    \o << "OUTPUT REQUIREMENTS" >>

buildUserMessage(filename, content) ==
    [text |-> "Rewrite this documentation file", filename |-> filename,
     source_document |-> content]

\* ------------------------------------------------------------- lib/zip.ts
\* JSZip.file(name, data): the archive's files are keyed by name
ZipFile(zip, name, content) ==
    IF \E k \in 1..Len(zip) : zip[k].name = name
    THEN [k \in 1..Len(zip) |->
            IF zip[k].name = name THEN [name |-> name, content |-> content] ELSE zip[k]]
    ELSE Append(zip, [name |-> name, content |-> content])

RECURSIVE ZipFiles(_, _, _, _)
\* for (const file of files) zip.file(file.name, file.content), over
\* files[lo..hi] in order, starting from zip (the range is halved to keep the
\* evaluation shallow; the files are added in the same order)
ZipFiles(zip, files, lo, hi) ==
    IF lo > hi THEN zip
    ELSE IF lo = hi THEN ZipFile(zip, files[lo].name, files[lo].content)
    ELSE LET mid == (lo + hi) \div 2
             first == ZipFiles(zip, files, lo, mid)
         IN  \* the first half is evaluated before the second is entered
             IF Len(first) >= 0 THEN ZipFiles(first, files, mid + 1, hi) ELSE first

createZip(files) == [compression |-> "DEFLATE", entries |-> ZipFiles(<<>>, files, 1, Len(files))]
createZipBase64(files) == [encoding |-> "base64", buffer |-> createZip(files)]
\* JSZip.loadAsync on the decoded archive: its entries, in order (extractZip
\* skips none of them for the names of Names and GenDoc)
Decompress(zipBase64) == zipBase64.buffer.entries

\* ---------------------------------------------------------- lib/claude.ts
LowerWord(w) == IF w = "Overloaded" THEN "overloaded" ELSE w
\* message.includes(signature), on the words of the message
Includes(message, signature) == \E k \in 1..Len(message) : message[k] = signature
LowerMessage(message) == [k \in 1..Len(message) |-> LowerWord(message[k])]
\* isRetryableError as the code would be if it held every error retryable
isRetryableErrorAlways(error) == TRUE
isRetryableError(error) ==
    LET message == LowerMessage(error)
    IN  \/ Includes(message, "overloaded")
        \/ Includes(message, "529")
        \/ Includes(message, "503")
        \/ Includes(message, "rate_limit")
        \/ Includes(message, "timeout")
        \/ Includes(message, "econnreset")
        \/ Includes(message, "socket hang up")

Success(text) == [success |-> TRUE, content |-> << text >>, error |-> <<>>]
Failure(error) == [success |-> FALSE, content |-> <<>>, error |-> << error >>]

\* lines 120-134: the failure outcome once the retry loop is left with lastError
FailureAfterRetries(errorMessage) ==
    IF Includes(errorMessage, "invalid_api_key")
    THEN Failure([text |-> "Invalid API key. Please check your ANTHROPIC_API_KEY in .env.local"])
    ELSE Failure([text |-> "Claude API error after {MAX_RETRIES} attempts: {errorMessage}",
                  attempts |-> MAX_RETRIES, detail |-> errorMessage])

\* process.env.ANTHROPIC_API_KEY: undefined, or a string read as its prefix
\* and the rest of it
Key(prefix, rest) == << [prefix |-> prefix, rest |-> rest] >>
ApiKeys ==
    { <<>>,
      Key("", ""),
      Key("sk-ant-", "YOUR_API_KEY_HERE"),
      Key("sk-proj-", "live"),
      Key("sk-ant-", "live"),
      Key("sk-ant-", "revoked") }
\* the keys the remote service accepts
AcceptedKeys == { Key("sk-ant-", "live") }

\* isApiKeyConfigured as the code would be without the test of the placeholder
isApiKeyConfiguredNoPlaceholder(key) ==
    /\ key # <<>>
    /\ key # Key("", "")
    /\ key[1].prefix = "sk-ant-"
\* isApiKeyConfigured, lines 140-143
isApiKeyConfigured(key) ==
    /\ key # <<>>
    /\ key # Key("", "")
    /\ key # Key("sk-ant-", "YOUR_API_KEY_HERE")
    /\ key[1].prefix = "sk-ant-"

\* ------------------------------------------------ app/api/rewrite/route.ts
VARIABLES
    apiKey,             \* process.env.ANTHROPIC_API_KEY
    bodyKind,           \* what request.json() yields
    reqFiles,           \* body.files
    reqReferences,      \* body.references
    pc,                 \* position of the POST handler
    events,             \* the events enqueued on the stream, in order
    closed,             \* controller.close() was called
    validFiles, systemPrompt, i, rewrittenFiles,   \* locals of POST
    attempt, lastError, \* locals of rewriteDocument
    result,             \* the outcome rewriteDocument resolved with
    lastCall,           \* the latest invocation of anthropic.messages.create
    delay,              \* the delay of the latest backoff sleep of the call
    pending,            \* the documents whose rewriteDocument promise is unsettled
    answer,             \* the kind of the latest response of the remote service
    reqModel,           \* body.model
    abandoned,          \* the caller has closed the transport of the stream
    store,              \* the reference slots in data/references.json or KV
    initialStore,       \* the reference slots before any request was served
    ops,                \* the requests on the reference storage, by requester
    other,              \* a second invocation of POST, running at the same time
    processingState,    \* page.tsx: the state of the client
    pageFiles,          \* page.tsx: files.length
    pageRulesSystem,    \* page.tsx: references.rulesSystem !== null
    reader,             \* page.tsx: the position of handleStart
    body,               \* the response body handleStart reads
    decoderPending,     \* the bytes the TextDecoder holds of an unfinished character
    buffer,             \* page.tsx: buffer of handleStart
    dispatched          \* the events handleStart has acted on, in order

vars == << apiKey, bodyKind, reqFiles, reqReferences, pc, events, closed,
           validFiles, systemPrompt, i, rewrittenFiles, attempt, lastError, result,
           lastCall, delay, pending, answer, reqModel, abandoned,
           store, initialStore, ops, other,
           processingState, pageFiles, pageRulesSystem, reader, body,
           decoderPending, buffer, dispatched >>
\* the state of the page
page == << processingState, pageFiles, pageRulesSystem, reader, body,
          decoderPending, buffer, dispatched >>
request == << apiKey, bodyKind, reqFiles, reqReferences, reqModel >>
\* what is outside the rewrite handler
outside == << abandoned, store, initialStore, ops, other, page >>
locals == << validFiles, systemPrompt, i, rewrittenFiles >>
client == << attempt, lastError, result, lastCall, delay, pending, answer >>
\* the state of the rewrite handler
handler == << request, locals, client, pc, events, closed >>

\* isApiKeyConfigured() of line 29
apiKeyConfigured == isApiKeyConfigured(apiKey)

\* the models the page offers, page.tsx lines 10-19
MODELS == { "claude-sonnet-4-20250514", "claude-opus-4-5-20251101" }
DEFAULT_MODEL == "claude-sonnet-4-20250514"
\* model || DEFAULT_MODEL, line 65
selectedModel(model) == IF model # <<>> THEN model[1] ELSE DEFAULT_MODEL

\* a request as the handler is entered
JobInit ==
    /\ apiKey \in ApiKeys
    /\ bodyKind \in BodyKinds
    /\ \/ /\ bodyKind = "ok"
          /\ \/ reqFiles \in SmallBatches /\ reqReferences \in ReferenceSlots
             \/ reqFiles \in LargeBatches /\ reqReferences = FullRefs
       \/ /\ bodyKind = "noFiles"
          /\ reqFiles = <<>>
          /\ reqReferences \in ReferenceSlots
       \/ /\ bodyKind \in { "unparseable", "noReferences" }
          /\ reqFiles = <<>>
          /\ reqReferences = FullRefs
    /\ pc = "checkKey"
    /\ events = <<>>
    /\ closed = FALSE
    /\ validFiles = <<>>
    /\ systemPrompt = <<>>
    /\ i = 0
    /\ rewrittenFiles = <<>>
    /\ attempt = 0
    /\ lastError = <<>>
    /\ result = <<>>
    /\ lastCall = <<>>
    /\ delay = 0
    /\ pending = {}
    /\ answer = "none"

\* no rewrite job is served
NoJob ==
    /\ apiKey = <<>>
    /\ bodyKind = "ok"
    /\ reqFiles = <<>>
    /\ reqReferences = FullRefs
    /\ reqModel = <<>>
    /\ pc = "idle"
    /\ events = <<>>
    /\ closed = FALSE
    /\ validFiles = <<>>
    /\ systemPrompt = <<>>
    /\ i = 0
    /\ rewrittenFiles = <<>>
    /\ attempt = 0
    /\ lastError = <<>>
    /\ result = <<>>
    /\ lastCall = <<>>
    /\ delay = 0
    /\ pending = {}
    /\ answer = "none"

\* ---------------------- lib/storage.ts, app/api/references/save/route.ts
SlotNames == { "rulesSystem", "rewriteGuide", "staffDocs" }
EmptySlots == [rulesSystem |-> <<>>, rewriteGuide |-> <<>>, staffDocs |-> <<>>]
Requesters == { "r1", "r2" }

\* a field of a JSON body: absent (<<>>), a string or a number
JsString(s) == << [type |-> "string", value |-> s] >>
JsNumber == << [type |-> "number", value |-> 7] >>
IsString(v) == v # <<>> /\ v[1].type = "string"

DotMd == << ".", "m", "d" >>
\* String.prototype.lastIndexOf for one character, 1-based, 0 when absent
LastIndexOf(name, c) ==
    LET at == { k \in 1..Len(name) : name[k] = c }
    IN  IF at = {} THEN 0 ELSE CHOOSE k \in at : \A j \in at : j <= k
\* filename.toLowerCase().slice(filename.lastIndexOf('.')), line 93: slice(-1)
\* is the last character
Extension(filename) ==
    LET at == LastIndexOf(filename, ".")
        lower == ToLowerCase(filename)
    IN  IF at = 0 THEN SubSeq(lower, Len(lower), Len(lower))
        ELSE SubSeq(lower, at, Len(lower))

MAX_REFERENCE_SIZE == 1024 * 1024
\* the test of line 110 as the code would be with the limit of the batch
ReferenceTooLargeAsBatch(content) == content.len > MAX_TOTAL_SIZE_BYTES
\* content.length > 1024 * 1024, line 110
ReferenceTooLarge(content) == content.len > MAX_REFERENCE_SIZE

\* validateReferenceFile(content, filename), lines 88-118
validateReferenceFile(content, filename) ==
    IF Extension(filename) \notin { DotMd, DotTxt }
    THEN [valid |-> FALSE,
          error |-> << [text |-> "Invalid file type: {filename}. Only .md and .txt files are accepted for reference slots.",
                        filename |-> filename] >>]
    ELSE IF Falsy(content) \/ Trim(content) = EmptyStr
    THEN [valid |-> FALSE, error |-> << [text |-> "File is empty: {filename}", filename |-> filename] >>]
    ELSE IF ReferenceTooLarge(content)
    THEN [valid |-> FALSE,
          error |-> << [text |-> "Reference file too large: {filename}. Maximum is 1MB.",
                        filename |-> filename] >>]
    ELSE [valid |-> TRUE, error |-> <<>>]

\* the requests on the reference storage
SaveRequest(slot, content, filename) ==
    [kind |-> "save", slot |-> slot, content |-> content, filename |-> filename]
ClearCall(slot) ==
    [kind |-> "clear", slot |-> << slot >>, content |-> <<>>, filename |-> <<>>]
NoRequest == [kind |-> "none", slot |-> <<>>, content |-> <<>>, filename |-> <<>>]
ReferenceNames ==
    { << "r", ".", "m", "d" >>, << "R", ".", "T", "X", "T" >>, << "r", ".", "p", "d", "f" >>,
      << "m", "d" >>, << >> }
ReferenceContents ==
    { EmptyStr, Str(" ", 2), Str("x", 1), Str("x", MAX_REFERENCE_SIZE),
      Str("x", MAX_REFERENCE_SIZE + 1) }
\* every body the save route can be sent
SaveRequests ==
    { SaveRequest(slot, content, filename) :
        slot \in { <<>>, << "bogus" >> } \cup { << n >> : n \in SlotNames },
        content \in { <<>>, JsNumber } \cup { JsString(c) : c \in ReferenceContents },
        filename \in { <<>>, JsNumber } \cup { JsString(f) : f \in ReferenceNames } }
    \cup { [kind |-> "unparseable", slot |-> <<>>, content |-> <<>>, filename |-> <<>>] }
\* the saves that pass every check, and the clears
GoodRequests ==
    { SaveRequest(<< n >>, JsString(Str("x", 1)), JsString(<< "r", ".", "m", "d" >>)) : n \in SlotNames }
    \cup { ClearCall(n) : n \in SlotNames }

Op(req) ==
    [req |-> req,
     pc |-> IF req.kind = "none" THEN "done"
            ELSE IF req.kind = "clear" THEN "load" ELSE "received",
     slots |-> <<>>, response |-> <<>>]

BadRequest(error) == << [status |-> 400, error |-> error] >>

\* POST of references/save, lines 6-46 and 56-62: the answer to a request
\* that is not saved, <<>> for one that is
Rejection(req) ==
    IF req.kind = "unparseable"
    THEN << [status |-> 500, error |-> [text |-> "Failed to save reference file"]] >>
    ELSE IF req.slot = <<>> \/ req.slot[1] \notin SlotNames
    THEN BadRequest([text |-> "Invalid slot name: {slot}. Must be one of: rulesSystem, rewriteGuide, staffDocs"])
    ELSE IF req.content = <<>> \/ ~IsString(req.content) \/ Falsy(req.content[1].value)
    THEN BadRequest([text |-> "Content is required and must be a string"])
    ELSE IF req.filename = <<>> \/ ~IsString(req.filename) \/ Len(req.filename[1].value) = 0
    THEN BadRequest([text |-> "Filename is required and must be a string"])
    ELSE LET validation == validateReferenceFile(req.content[1].value, req.filename[1].value)
         IN  IF ~validation.valid THEN BadRequest(validation.error[1]) ELSE <<>>

\* the save route up to its call of saveReference
SaveValidate(r) ==
    /\ ops[r].pc = "received"
    /\ IF Rejection(ops[r].req) # <<>>
       THEN ops' = [ops EXCEPT ![r].response = Rejection(ops[r].req), ![r].pc = "done"]
       ELSE ops' = [ops EXCEPT ![r].pc = "load"]
    /\ UNCHANGED << handler, abandoned, store, initialStore, other, page >>

\* const slots = await loadReferences(), storage.ts lines 125 and 141
LoadReferences(r) ==
    /\ ops[r].pc = "load"
    /\ ops' = [ops EXCEPT ![r].slots = << store >>, ![r].pc = "write"]
    /\ UNCHANGED << handler, abandoned, store, initialStore, other, page >>

\* new Date().toISOString() of line 122, distinct for each request
SavedAt(r) == r
\* the record of lines 119-123, null for clearReference
Written(r) ==
    IF ops[r].req.kind = "clear" THEN <<>>
    ELSE << [content |-> ops[r].req.content[1].value,
             filename |-> ops[r].req.filename[1].value,
             savedAt |-> SavedAt(r)] >>

\* slots[slot] = ...; await saveToFile(slots), lines 126-134 and 142-148
WriteSlots(r) ==
    /\ ops[r].pc = "write"
    /\ store' = [ops[r].slots[1] EXCEPT ![ops[r].req.slot[1]] = Written(r)]
    /\ ops' = [ops EXCEPT
                  ![r].response = IF ops[r].req.kind = "clear" THEN <<>>
                                  ELSE << [status |-> 200, success |-> TRUE,
                                           slot |-> ops[r].req.slot[1], savedAt |-> SavedAt(r)] >>,
                  ![r].pc = "done"]
    /\ UNCHANGED << handler, abandoned, initialStore, other, page >>

StorageNext == \E r \in Requesters : SaveValidate(r) \/ LoadReferences(r) \/ WriteSlots(r)

\* the closure of an invocation of POST that has not started
OtherIdle ==
    [pc |-> "idle", validFiles |-> <<>>, i |-> 0, rewrittenFiles |-> <<>>,
     events |-> <<>>, closed |-> FALSE]
\* no second invocation of POST
NoOtherJob == other = OtherIdle

\* the page as it is loaded, before any file is chosen (page.tsx lines 34-47)
NoBody == [events |-> <<>>, bytes |-> <<>>, pos |-> 0]
PageIdle ==
    /\ processingState = "idle"
    /\ pageFiles = 0
    /\ pageRulesSystem = FALSE
    /\ reader = "none"
    /\ body = NoBody
    /\ decoderPending = <<>>
    /\ buffer = <<>>
    /\ dispatched = <<>>

\* nothing goes on outside the handler
Quiet ==
    /\ abandoned = FALSE
    /\ store = FullRefs
    /\ initialStore = FullRefs
    /\ ops = [r \in Requesters |-> Op(NoRequest)]
    /\ NoOtherJob
    /\ PageIdle

\* the jobs of a caller that names no model
Init ==
    /\ JobInit
    /\ reqModel = <<>>
    /\ Quiet

\* sendEvent(event, data), lines 22-25
sendEvent(event, data) == Append(events, [type |-> event, data |-> data])

ServerError(errorMessage) == [message |-> [text |-> "Server error: {errorMessage}", detail |-> errorMessage]]

\* the credential check as the code would be if it closed the stream without
\* sending the error event
CheckApiKeySilent ==
    /\ pc = "checkKey"
    /\ IF ~apiKeyConfigured
       THEN /\ closed' = TRUE
            /\ pc' = "done"
            /\ UNCHANGED events
       ELSE /\ pc' = "parse"
            /\ UNCHANGED << events, closed >>
    /\ UNCHANGED << request, outside, locals, client >>

\* lines 28-35: the credential check
CheckApiKey ==
    /\ pc = "checkKey"
    /\ IF ~apiKeyConfigured
       THEN /\ events' = sendEvent("error",
                   [message |-> [text |-> "Anthropic API key is not configured. Please add your API key to .env.local"]])
            /\ closed' = TRUE
            /\ pc' = "done"
       ELSE /\ pc' = "parse"
            /\ UNCHANGED << events, closed >>
    /\ UNCHANGED << request, outside, locals, client >>

\* line 38, and the catch of lines 113-123 when request.json() rejects
ParseBody ==
    /\ pc = "parse"
    /\ IF bodyKind = "unparseable"
       THEN /\ events' = sendEvent("error", ServerError("Unexpected token in JSON"))
            /\ closed' = TRUE
            /\ pc' = "done"
       ELSE /\ pc' = "validate"
            /\ UNCHANGED << events, closed >>
    /\ UNCHANGED << request, outside, locals, client >>

\* lines 39-67: the Validation Gate and the set-up of the loop
Validate ==
    /\ pc = "validate"
    /\ IF bodyKind = "noReferences"
       THEN \* references.rulesSystem of undefined throws
            /\ events' = sendEvent("error", ServerError("Cannot read properties of undefined"))
            /\ closed' = TRUE
            /\ pc' = "done"
            /\ UNCHANGED locals
       ELSE IF reqReferences.rulesSystem = <<>>
       THEN /\ events' = sendEvent("error",
                   [message |-> [text |-> "Rules System reference is required. Please upload it to Slot 1."]])
            /\ closed' = TRUE
            /\ pc' = "done"
            /\ UNCHANGED locals
       ELSE IF bodyKind = "noFiles"
       THEN \* files.length of undefined throws in validateFiles
            /\ events' = sendEvent("error", ServerError("Cannot read properties of undefined"))
            /\ closed' = TRUE
            /\ pc' = "done"
            /\ UNCHANGED locals
       ELSE LET validation == validateFiles(reqFiles)
            IN  IF ~validation.valid
                THEN /\ events' = sendEvent("error", [message |-> validation.error[1]])
                     /\ closed' = TRUE
                     /\ pc' = "done"
                     /\ UNCHANGED locals
                ELSE /\ validFiles' = validation.files
                     /\ systemPrompt' = buildSystemPrompt(reqReferences)
                     /\ rewrittenFiles' = <<>>
                     /\ i' = 0
                     /\ pc' = "loop"
                     /\ UNCHANGED << events, closed >>
    /\ UNCHANGED << request, outside, client >>

total == Len(validFiles)

\* const current = i + 1, line 71, as the code would be with current = i
currentZeroBased == i
\* const current = i + 1, line 71
current == i + 1

\* the loop test of line 69, as the code would be if it stopped one short
MoreDocumentsOneShort == i + 1 < Len(validFiles)
\* i < validFiles.length, line 69
MoreDocuments == i < Len(validFiles)

\* the test of line 86, as the code would be if it never saw a failure
FailedNever(r) == FALSE
\* !result.success, line 86
Failed(r) == ~r.success

\* the call as the code would be if the handler built the system prompt from
\* the stored references for each call
CreateFromStorage(k) ==
    << [doc |-> i + 1, attempt |-> k, model |-> selectedModel(<<>>),
        system |-> buildSystemPrompt(store),
        user |-> buildUserMessage(validFiles[i + 1].name, validFiles[i + 1].content)] >>
\* anthropic.messages.create(...), lines 70-80, for the call of route.ts line
\* 84, which passes rewriteDocument no model
Create(k) ==
    << [doc |-> i + 1, attempt |-> k, model |-> selectedModel(<<>>),
        system |-> systemPrompt,
        user |-> buildUserMessage(validFiles[i + 1].name, validFiles[i + 1].content)] >>

\* lines 69-84 as the code would be without the await of line 84: the loop
\* goes on to the next document while the call is in flight
StartDocumentNoAwait ==
    /\ pc = "loop"
    /\ IF MoreDocuments
       THEN /\ events' = sendEvent("progress",
                   [current |-> current, total |-> total, filename |-> validFiles[i + 1].name])
            /\ attempt' = 1
            /\ lastError' = <<>>
            /\ result' = <<>>
            /\ delay' = 0
            /\ lastCall' = Create(1)
            /\ pending' = pending \cup { i + 1 }
            /\ answer' = "none"
            /\ i' = i + 1
            /\ pc' = "loop"
       ELSE /\ pc' = "zip"
            /\ UNCHANGED << events, client, i >>
    /\ UNCHANGED << request, outside, validFiles, systemPrompt, rewrittenFiles, closed >>

\* lines 69-84: the loop test, the progress event and the call of rewriteDocument
StartDocument ==
    /\ pc = "loop"
    /\ IF MoreDocuments
       THEN /\ events' = sendEvent("progress",
                   [current |-> current, total |-> total, filename |-> validFiles[i + 1].name])
            /\ attempt' = 1
            /\ lastError' = <<>>
            /\ result' = <<>>
            /\ delay' = 0
            /\ lastCall' = Create(1)
            /\ pending' = pending \cup { i + 1 }
            /\ answer' = "none"
            /\ pc' = "calling"
       ELSE /\ pc' = "zip"
            /\ UNCHANGED << events, client >>
    /\ UNCHANGED << request, outside, locals, closed >>

\* the answers the remote service can give to the call in flight: it rejects
\* a key it does not accept, and only such a key
Answers ==
    IF apiKey \notin AcceptedKeys
    THEN { [kind |-> "error", message |-> m] :
              m \in { e \in RemoteErrors : Includes(e, "invalid_api_key") \/ isRetryableError(e) } }
    ELSE IF i + 1 <= ExploreDepth
    THEN { [kind |-> "text", text |-> t] : t \in Texts }
         \cup { [kind |-> "noText"] }
         \cup { [kind |-> "error", message |-> m] :
                    m \in { e \in RemoteErrors : ~Includes(e, "invalid_api_key") } }
    ELSE { [kind |-> "text", text |-> CanonText] }

\* Math.random() * 1000 of line 104, at its extremes
Jitters == { 0, 999 }
INITIAL_DELAY_MS == 2000
MAX_DELAY_MS == 60000
\* the delay as the code would be if it grew by INITIAL_DELAY_MS per attempt
baseDelayLinear(k) ==
    LET d == INITIAL_DELAY_MS * k IN IF d < MAX_DELAY_MS THEN d ELSE MAX_DELAY_MS
\* Math.min(INITIAL_DELAY_MS * Math.pow(2, attempt - 1), MAX_DELAY_MS), line 103
baseDelay(k) ==
    LET d == INITIAL_DELAY_MS * (2 ^ (k - 1)) IN IF d < MAX_DELAY_MS THEN d ELSE MAX_DELAY_MS

\* the test of line 101 as the code would be with <= in place of <
ShouldRetryOneMore(error, k) == isRetryableError(error) /\ k <= MAX_RETRIES
\* isRetryableError(error) && attempt < MAX_RETRIES, line 101
ShouldRetry(error, k) == isRetryableError(error) /\ k < MAX_RETRIES

\* the promise of rewriteDocument for the document in hand settles
Settled == pending \ { lastCall[1].doc }

\* rewriteDocument as the code would be if a response without a text block
\* were thrown as a timeout and so retried
RemoteAnswersRetryNoText ==
    /\ pc = "calling"
    /\ \E a \in Answers :
          /\ answer' = a.kind
          /\ CASE a.kind = "text" ->
                 /\ result' = << Success(a.text) >>
                 /\ pc' = "resolved"
                 /\ pending' = Settled
                 /\ UNCHANGED << lastError, delay >>
            [] a.kind \in { "noText", "error" } ->
                 LET message == IF a.kind = "error" THEN a.message ELSE << "timeout" >> IN
                 /\ lastError' = << message >>
                 /\ IF ShouldRetry(message, attempt)
                    THEN /\ \E jitter \in Jitters : delay' = baseDelay(attempt) + jitter
                         /\ pc' = "sleeping"
                         /\ UNCHANGED << result, pending >>
                    ELSE /\ result' = << FailureAfterRetries(message) >>
                         /\ pc' = "resolved"
                         /\ pending' = Settled
                         /\ UNCHANGED delay
    /\ UNCHANGED << request, outside, locals, events, closed, attempt, lastCall >>

\* lines 82-116 of rewriteDocument: one answer of the remote service
RemoteAnswers ==
    /\ pc = "calling"
    /\ \E a \in Answers :
          /\ answer' = a.kind
          /\ CASE a.kind = "text" ->
                 /\ result' = << Success(a.text) >>
                 /\ pc' = "resolved"
                 /\ pending' = Settled
                 /\ UNCHANGED << lastError, delay >>
            [] a.kind = "noText" ->
                 /\ result' = << Failure([text |-> "No text content in Claude response"]) >>
                 /\ pc' = "resolved"
                 /\ pending' = Settled
                 /\ UNCHANGED << lastError, delay >>
            [] a.kind = "error" ->
                 /\ lastError' = << a.message >>
                 /\ IF ShouldRetry(a.message, attempt)
                    THEN /\ \E jitter \in Jitters : delay' = baseDelay(attempt) + jitter
                         /\ pc' = "sleeping"
                         /\ UNCHANGED << result, pending >>
                    ELSE /\ result' = << FailureAfterRetries(a.message) >>
                         /\ pc' = "resolved"
                         /\ pending' = Settled
                         /\ UNCHANGED delay
    /\ UNCHANGED << request, outside, locals, events, closed, attempt, lastCall >>

\* the retry as the code would be if it sent a progress event for each attempt
RetryAnnounced ==
    /\ pc = "sleeping"
    /\ attempt' = attempt + 1
    /\ lastCall' = Create(attempt + 1)
    /\ events' = sendEvent("progress",
           [current |-> current, total |-> total, filename |-> validFiles[i + 1].name])
    /\ pc' = "calling"
    /\ UNCHANGED << request, outside, locals, closed, lastError, result, delay, pending, answer >>

\* lines 111-112 and 68-80: the sleep ends and the next attempt is made
Retry ==
    /\ pc = "sleeping"
    /\ attempt' = attempt + 1
    /\ lastCall' = Create(attempt + 1)
    /\ pc' = "calling"
    /\ UNCHANGED << request, outside, locals, events, closed, lastError, result, delay, pending, answer >>

\* the stored content as the code would be if it kept the input document's
StoredContentInput(r) == validFiles[i + 1].content
\* StoredContent(r): result.content || '', line 99
StoredContent(r) ==
    IF r.content # <<>> /\ ~Falsy(r.content[1]) THEN r.content[1] ELSE EmptyStr

\* lines 86-101 as the code would be without controller.close() and return in
\* the failure branch: the loop goes on after the error event
HandleResultNoReturn ==
    /\ pc = "resolved"
    /\ IF Failed(result[1])
       THEN /\ events' = sendEvent("error",
                   [message |-> result[1].error[1], failedAt |-> current,
                    filename |-> validFiles[i + 1].name])
            /\ UNCHANGED closed
       ELSE UNCHANGED << events, closed >>
    /\ rewrittenFiles' = Append(rewrittenFiles,
           [name |-> validFiles[i + 1].name, content |-> StoredContent(result[1])])
    /\ i' = i + 1
    /\ pc' = "loop"
    /\ UNCHANGED << request, outside, validFiles, systemPrompt, client >>

\* lines 86-101 as the code would be without controller.close() in the
\* failure branch
HandleResultNoClose ==
    /\ pc = "resolved"
    /\ IF Failed(result[1])
       THEN /\ events' = sendEvent("error",
                   [message |-> result[1].error[1], failedAt |-> current,
                    filename |-> validFiles[i + 1].name])
            /\ pc' = "done"
            /\ UNCHANGED << closed, i, rewrittenFiles, client >>
       ELSE /\ rewrittenFiles' = Append(rewrittenFiles,
                   [name |-> validFiles[i + 1].name, content |-> StoredContent(result[1])])
            /\ i' = i + 1
            /\ attempt' = 0
            /\ lastError' = <<>>
            /\ result' = <<>>
            /\ delay' = 0
            /\ answer' = "none"
            /\ pc' = "loop"
            /\ UNCHANGED << events, closed, lastCall, pending >>
    /\ UNCHANGED << request, outside, validFiles, systemPrompt >>

\* lines 86-101 as the code would be if the failure branch moved the loop
\* index on before it returned
HandleResultAdvancesOnFailure ==
    /\ pc = "resolved"
    /\ IF Failed(result[1])
       THEN /\ events' = sendEvent("error",
                   [message |-> IF result[1].error # <<>> THEN result[1].error[1]
                                ELSE [text |-> "Unknown error during rewriting"],
                    failedAt |-> current,
                    filename |-> validFiles[i + 1].name])
            /\ closed' = TRUE
            /\ i' = i + 1
            /\ pc' = "done"
            /\ UNCHANGED << rewrittenFiles, client >>
       ELSE /\ rewrittenFiles' = Append(rewrittenFiles,
                   [name |-> validFiles[i + 1].name,
                    content |-> StoredContent(result[1])])
            /\ i' = i + 1
            /\ attempt' = 0
            /\ lastError' = <<>>
            /\ result' = <<>>
            /\ delay' = 0
            /\ answer' = "none"
            /\ pc' = "loop"
            /\ UNCHANGED << events, closed, lastCall, pending >>
    /\ UNCHANGED << request, outside, validFiles, systemPrompt >>

\* lines 86-101: the outcome of rewriteDocument
HandleResult ==
    /\ pc = "resolved"
    /\ IF Failed(result[1])
       THEN /\ events' = sendEvent("error",
                   [message |-> IF result[1].error # <<>> THEN result[1].error[1]
                                ELSE [text |-> "Unknown error during rewriting"],
                    failedAt |-> current,
                    filename |-> validFiles[i + 1].name])
            /\ closed' = TRUE
            /\ pc' = "done"
            /\ UNCHANGED << i, rewrittenFiles, client >>
       ELSE /\ rewrittenFiles' = Append(rewrittenFiles,
                   [name |-> validFiles[i + 1].name,
                    content |-> StoredContent(result[1])])
            /\ i' = i + 1
            \* rewriteDocument has returned: its locals are gone
            /\ attempt' = 0
            /\ lastError' = <<>>
            /\ result' = <<>>
            /\ delay' = 0
            /\ answer' = "none"
            /\ pc' = "loop"
            /\ UNCHANGED << events, closed, lastCall, pending >>
    /\ UNCHANGED << request, outside, validFiles, systemPrompt >>

\* lines 103-112: the archive and the complete event
Complete ==
    /\ pc = "zip"
    /\ events' = sendEvent("complete",
           [zipBase64 |-> createZipBase64(rewrittenFiles),
            totalProcessed |-> Len(rewrittenFiles)])
    /\ closed' = TRUE
    /\ pc' = "done"
    /\ UNCHANGED << request, outside, locals, client >>

\* lines 104 and 113-123 as the code would be without the catch: the
\* rejection of createZipBase64 ends start() with no event and no close
ArchiveThrowsUncaught ==
    /\ pc = "zip"
    /\ pc' = "done"
    /\ UNCHANGED << request, outside, locals, client, events, closed >>

\* lines 104 and 113-123: createZipBase64 rejects and the catch reports it
ArchiveThrows ==
    /\ pc = "zip"
    /\ events' = sendEvent("error", ServerError("archive"))
    /\ closed' = TRUE
    /\ pc' = "done"
    /\ UNCHANGED << request, outside, locals, client >>

Next ==
    \/ CheckApiKey
    \/ ParseBody
    \/ Validate
    \/ StartDocument
    \/ RemoteAnswers
    \/ Retry
    \/ HandleResult
    \/ Complete

Spec == Init /\ [][Next]_vars

\* the job when an exception is injected into the assembly of the archive
FaultNext == Next \/ ArchiveThrows
FaultSpec == Init /\ [][FaultNext]_vars

\* every step of the handler is scheduled by the event loop: the remote call
\* settles, the backoff timer fires, the continuation runs
\* (the jobs of the batches drawn from Docs)
LiveInit == Init /\ Len(reqFiles) <= MaxDocs
LiveSpec == LiveInit /\ [][FaultNext]_vars /\ WF_vars(FaultNext)

\* the requests that pass the credential check and are parsed, with every
\* reference slot filled
RunInit ==
    /\ JobInit
    /\ apiKey \in AcceptedKeys
    /\ bodyKind = "ok"
    /\ reqReferences = FullRefs
    /\ Len(reqFiles) <= MaxDocs

\* the jobs of the callers that name a model or none
ModelInit ==
    /\ RunInit
    /\ reqModel \in { <<>> } \cup { << m >> : m \in MODELS }
    /\ Quiet
ModelSpec == ModelInit /\ [][Next]_vars

\* the caller closes the transport while the job runs
Abandon ==
    /\ ~abandoned
    /\ pc # "done"
    /\ abandoned' = TRUE
    /\ UNCHANGED << handler, store, initialStore, ops, other, page >>

\* the next step of the handler sends an event
SendsEvent ==
    \/ pc = "checkKey" /\ ~apiKeyConfigured
    \/ pc = "parse" /\ bodyKind = "unparseable"
    \/ pc = "validate" /\ \/ bodyKind \in { "noReferences", "noFiles" }
                          \/ reqReferences.rulesSystem = <<>>
                          \/ ~validateFiles(reqFiles).valid
    \/ pc = "loop" /\ MoreDocuments
    \/ pc = "resolved" /\ Failed(result[1])
    \/ pc = "zip"

\* controller.enqueue throws on the cancelled stream, in the try and again in
\* the catch of lines 113-123: start() rejects and the handler is over
EnqueueThrows ==
    /\ abandoned
    /\ SendsEvent
    /\ pc' = "done"
    /\ UNCHANGED << request, outside, locals, client, events, closed >>

\* a step of the handler that needs no enqueue on a cancelled stream
HandlerStep == ~(abandoned /\ SendsEvent) /\ Next

AbandonNext == Abandon \/ EnqueueThrows \/ HandlerStep
\* one request to the save route
SaveInit ==
    /\ NoJob
    /\ abandoned = FALSE
    /\ store \in { EmptySlots, FullRefs }
    /\ initialStore = store
    /\ NoOtherJob
    /\ PageIdle
    /\ \E req \in SaveRequests : ops = [r \in Requesters |-> IF r = "r1" THEN Op(req) ELSE Op(NoRequest)]
SaveSpec == SaveInit /\ [][StorageNext]_vars

\* two requests on the reference storage served at the same time
StorageInit ==
    /\ NoJob
    /\ abandoned = FALSE
    /\ store \in { EmptySlots, FullRefs }
    /\ initialStore = store
    /\ NoOtherJob
    /\ PageIdle
    /\ ops \in [Requesters -> { Op(req) : req \in GoodRequests }]
StorageSpec == StorageInit /\ [][StorageNext]_vars

\* a job whose references are those of the storage, and a request on the
\* storage served while the job runs
SnapshotInit ==
    /\ RunInit
    /\ validateFiles(reqFiles).valid
    /\ reqModel = <<>>
    /\ abandoned = FALSE
    /\ store = reqReferences
    /\ initialStore = store
    /\ NoOtherJob
    /\ PageIdle
    /\ \E req \in GoodRequests : ops = [r \in Requesters |-> IF r = "r1" THEN Op(req) ELSE Op(NoRequest)]
SnapshotNext == Next \/ StorageNext
SnapshotSpec == SnapshotInit /\ [][SnapshotNext]_vars

AbandonInit == RunInit /\ reqModel = <<>> /\ Quiet
AbandonSpec == AbandonInit /\ [][AbandonNext]_vars

\* ------------------------------------------- two invocations of POST
\* the documents of the second job: the first has a name the first job can
\* have too, and none has a content of the first job
OtherDoc(k) ==
    [name |-> IF k = 1 THEN << "a", ".", "t", "x", "t" >> ELSE GenDoc(k).name,
     content |-> Str("o", 1)]
OtherBatches == { [k \in 1..n |-> OtherDoc(k)] : n \in 1..MaxDocs }
\* the text the remote service answers the second job with
OtherText == Str("w", 3)
\* what rewriteDocument resolves with in the second job
OtherOutcomes == { Success(OtherText), FailureAfterRetries(<< "529", "Overloaded" >>) }

\* lines 69-84 in the second invocation: the progress event and the call
OtherStartDocument ==
    /\ other.pc = "loop"
    /\ other' =
          IF other.i < Len(other.validFiles)
          THEN [other EXCEPT
                  !.events = Append(other.events,
                      [type |-> "progress",
                       data |-> [current |-> other.i + 1,
                                 total |-> Len(other.validFiles),
                                 filename |-> other.validFiles[other.i + 1].name]]),
                  !.pc = "calling"]
          ELSE [other EXCEPT !.pc = "zip"]
    /\ UNCHANGED << handler, abandoned, store, initialStore, ops, page >>

\* lines 84-101 as the code would be if rewrittenFiles were declared at
\* module level, one array for every invocation
OtherHandleResultShared(r) ==
    /\ other.pc = "calling"
    /\ IF Failed(r)
       THEN /\ other' = [other EXCEPT
                  !.events = Append(other.events,
                      [type |-> "error",
                       data |-> [message |-> r.error[1],
                                 failedAt |-> other.i + 1,
                                 filename |-> other.validFiles[other.i + 1].name]]),
                  !.closed = TRUE,
                  !.pc = "done"]
            /\ UNCHANGED rewrittenFiles
       ELSE /\ rewrittenFiles' = Append(rewrittenFiles,
                   [name |-> other.validFiles[other.i + 1].name,
                    content |-> StoredContent(r)])
            /\ other' = [other EXCEPT !.i = other.i + 1, !.pc = "loop"]
    /\ UNCHANGED << request, client, pc, events, closed, validFiles, systemPrompt, i >>
    /\ UNCHANGED << abandoned, store, initialStore, ops, page >>

\* lines 84-101 in the second invocation: rewriteDocument resolves with r
OtherHandleResult(r) ==
    /\ other.pc = "calling"
    /\ other' =
          IF Failed(r)
          THEN [other EXCEPT
                  !.events = Append(other.events,
                      [type |-> "error",
                       data |-> [message |-> r.error[1],
                                 failedAt |-> other.i + 1,
                                 filename |-> other.validFiles[other.i + 1].name]]),
                  !.closed = TRUE,
                  !.pc = "done"]
          ELSE [other EXCEPT
                  !.rewrittenFiles = Append(other.rewrittenFiles,
                      [name |-> other.validFiles[other.i + 1].name,
                       content |-> StoredContent(r)]),
                  !.i = other.i + 1,
                  !.pc = "loop"]
    /\ UNCHANGED << handler, abandoned, store, initialStore, ops, page >>

\* lines 103-112 in the second invocation
OtherComplete ==
    /\ other.pc = "zip"
    /\ other' = [other EXCEPT
          !.events = Append(other.events,
              [type |-> "complete",
               data |-> [zipBase64 |-> createZipBase64(other.rewrittenFiles),
                         totalProcessed |-> Len(other.rewrittenFiles)]]),
          !.closed = TRUE,
          !.pc = "done"]
    /\ UNCHANGED << handler, abandoned, store, initialStore, ops, page >>

OtherNext ==
    \/ OtherStartDocument
    \/ \E r \in OtherOutcomes : OtherHandleResult(r)
    \/ OtherComplete

\* two admitted jobs, the second one at the head of its loop
ConcurrentInit ==
    /\ RunInit
    /\ Len(reqFiles) >= 1
    /\ \A k \in 1..Len(reqFiles) :
          /\ reqFiles[k].content = Str("x", 1)
          /\ HasTxtExtension(reqFiles[k])
    /\ reqModel = <<>>
    /\ abandoned = FALSE
    /\ store = FullRefs
    /\ initialStore = FullRefs
    /\ ops = [r \in Requesters |-> Op(NoRequest)]
    /\ PageIdle
    /\ \E b \in OtherBatches : other = [OtherIdle EXCEPT !.pc = "loop", !.validFiles = b]
ConcurrentNext == Next \/ OtherNext
ConcurrentSpec == ConcurrentInit /\ [][ConcurrentNext]_vars

\* ------------------------------------------------------- app/page.tsx
\* A text is the sequence of its characters; a word without a special
\* character in it stands as one element.
LF == "\n"
Quote == "\""
Backslash == "\\"
EAcute == "U+00E9"

EventPrefix == << "e", "v", "e", "n", "t", ":", " " >>
DataPrefix == << "d", "a", "t", "a", ":", " " >>

\* the values of the fields of the event data
JsonNumber(n) == [type |-> "number", text |-> << DigitChar(n) >>]
JsonText(t) == [type |-> "string", text |-> t]

\* JSON.stringify of a string: the quote, the backslash and the line feed are
\* escaped
EscapeChar(c) ==
    IF c = LF THEN << Backslash, "n" >>
    ELSE IF c = Quote THEN << Backslash, Quote >>
    ELSE IF c = Backslash THEN << Backslash, Backslash >>
    ELSE << c >>
RECURSIVE Escape(_)
Escape(t) == IF t = <<>> THEN <<>> ELSE EscapeChar(Head(t)) \o Escape(Tail(t))

StringifyValue(v) ==
    IF v.type = "string" THEN << Quote >> \o Escape(v.text) \o << Quote >> ELSE v.text
RECURSIVE StringifyFields(_, _)
StringifyFields(fields, k) ==
    IF k > Len(fields) THEN <<>>
    ELSE << Quote, fields[k].key, Quote, ":" >> \o StringifyValue(fields[k].value)
           \o (IF k < Len(fields) THEN << "," >> ELSE <<>>)
           \o StringifyFields(fields, k + 1)
\* JSON.stringify(data), route.ts line 23, of an object of numbers and strings
JsonStringify(data) == << "{" >> \o StringifyFields(data, 1) \o << "}" >>

\* the message of sendEvent, route.ts line 23
Frame(e) ==
    EventPrefix \o << e.type >> \o << LF >> \o DataPrefix \o JsonStringify(e.data) \o << LF, LF >>

\* encoder.encode(message), line 24: UTF-8, two bytes for the accented letter
Utf8(c) == IF c = EAcute THEN << "C3", "A9" >> ELSE << c >>
RECURSIVE EncodeRange(_, _, _)
\* the bytes of t[lo..hi], in order (the range is halved to keep the
\* evaluation shallow)
EncodeRange(t, lo, hi) ==
    IF lo > hi THEN <<>>
    ELSE IF lo = hi THEN Utf8(t[lo])
    ELSE EncodeRange(t, lo, (lo + hi) \div 2) \o EncodeRange(t, (lo + hi) \div 2 + 1, hi)
Encode(t) == EncodeRange(t, 1, Len(t))

RECURSIVE EncodeStream(_, _)
\* the bytes enqueued for the first k events of a stream
EncodeStream(emitted, k) ==
    IF k = 0 THEN <<>> ELSE EncodeStream(emitted, k - 1) \o Encode(Frame(emitted[k]))

\* what the byte at position k of bytes decodes to: the first byte of the
\* accented letter gives the letter when its second byte follows, and is
\* held back when it is the last byte of the chunk
DecodedAt(bytes, k) ==
    IF bytes[k] = "C3"
    THEN IF k = Len(bytes) THEN "held"
         ELSE IF bytes[k + 1] = "A9" THEN EAcute ELSE "U+FFFD"
    ELSE IF bytes[k] = "A9"
    THEN IF k > 1 /\ bytes[k - 1] = "C3" THEN "held" ELSE "U+FFFD"
    ELSE bytes[k]
IsDecoded(c) == c # "held"
\* decoder.decode(value, { stream: true }), line 167, on the bytes held
\* before and the bytes of the chunk: the bytes of an unfinished character
\* are kept for the next chunk
DecodeBytes(bytes) ==
    [text |-> SelectSeq([k \in 1..Len(bytes) |-> DecodedAt(bytes, k)], IsDecoded),
     pending |-> IF bytes # <<>> /\ bytes[Len(bytes)] = "C3" THEN << "C3" >> ELSE <<>>]

\* the number of line feeds that end just before position k of t
LineFeedsBefore(t, k) ==
    LET others == { j \in 1..(k - 1) : t[j] # LF }
        last == IF others = {} THEN 0 ELSE CHOOSE j \in others : \A n \in others : n <= j
    IN  k - 1 - last
\* the positions where a separator of split('\n\n') starts: the pairs of line
\* feeds, taken from the left
BlankLines(t) ==
    { k \in 1..(Len(t) - 1) :
        t[k] = LF /\ t[k + 1] = LF /\ LineFeedsBefore(t, k) % 2 = 0 }
\* the n-th position of a set of positions
Nth(positions, n) == CHOOSE k \in positions : Cardinality({ j \in positions : j < k }) = n - 1
\* the pieces of t between the separators of the given width at positions
Pieces(t, positions, width) ==
    [n \in 1..(Cardinality(positions) + 1) |->
        SubSeq(t,
               IF n = 1 THEN 1 ELSE Nth(positions, n - 1) + width,
               IF n = Cardinality(positions) + 1 THEN Len(t) ELSE Nth(positions, n) - 1)]
\* buffer.split('\n\n'), line 170
SplitBlocks(t) == Pieces(t, BlankLines(t), 2)
\* eventBlock.split('\n'), line 177
SplitLines(t) == Pieces(t, { k \in 1..Len(t) : t[k] = LF }, 1)

StartsWith(line, prefix) ==
    Len(line) >= Len(prefix) /\ SubSeq(line, 1, Len(prefix)) = prefix
Slice(line, n) == SubSeq(line, n + 1, Len(line))
IsSpace(c) == c \in { " ", LF }
RECURSIVE TrimText(_)
TrimText(t) ==
    IF t = <<>> THEN t
    ELSE IF IsSpace(t[1]) THEN TrimText(Tail(t))
    ELSE IF IsSpace(t[Len(t)]) THEN TrimText(SubSeq(t, 1, Len(t) - 1))
    ELSE t

RECURSIVE ReadLines(_, _, _, _)
\* lines 181-187: the last event line and the last data line of the block
ReadLines(lines, k, eventType, eventData) ==
    IF k > Len(lines) THEN [eventType |-> eventType, eventData |-> eventData]
    ELSE IF StartsWith(lines[k], EventPrefix)
    THEN ReadLines(lines, k + 1, TrimText(Slice(lines[k], 7)), eventData)
    ELSE IF StartsWith(lines[k], DataPrefix)
    THEN ReadLines(lines, k + 1, eventType, Slice(lines[k], 6))
    ELSE ReadLines(lines, k + 1, eventType, eventData)

SyntaxError == [ok |-> FALSE, data |-> <<>>, next |-> 0]
RECURSIVE ParseString(_, _, _)
\* the characters of a JSON string up to its closing quote
ParseString(t, k, acc) ==
    IF k > Len(t) THEN SyntaxError
    ELSE IF t[k] = Quote THEN [ok |-> TRUE, data |-> acc, next |-> k + 1]
    ELSE IF t[k] = LF THEN SyntaxError
    ELSE IF t[k] = Backslash
    THEN IF k = Len(t) THEN SyntaxError
         ELSE IF t[k + 1] = "n" THEN ParseString(t, k + 2, Append(acc, LF))
         ELSE IF t[k + 1] \in { Quote, Backslash } THEN ParseString(t, k + 2, Append(acc, t[k + 1]))
         ELSE SyntaxError
    ELSE ParseString(t, k + 1, Append(acc, t[k]))

RECURSIVE ParseFields(_, _, _)
\* the fields of a JSON object, from the key at position k
ParseFields(t, k, acc) ==
    IF k + 4 > Len(t) \/ t[k] # Quote \/ t[k + 2] # Quote \/ t[k + 3] # ":"
    THEN SyntaxError
    ELSE LET string == ParseString(t, k + 5, <<>>)
             isString == t[k + 4] = Quote
             okValue == IF isString THEN string.ok ELSE t[k + 4] \in { DigitChar(d) : d \in 0..9 }
             field == [key |-> t[k + 1],
                       value |-> IF isString THEN JsonText(string.data)
                                 ELSE [type |-> "number", text |-> << t[k + 4] >>]]
             next == IF isString THEN string.next ELSE k + 5
         IN  IF ~okValue \/ next > Len(t) THEN SyntaxError
             ELSE IF t[next] = "," THEN ParseFields(t, next + 1, Append(acc, field))
             ELSE IF t[next] = "}" /\ next = Len(t)
             THEN [ok |-> TRUE, data |-> Append(acc, field), next |-> next + 1]
             ELSE SyntaxError
\* JSON.parse(eventData), line 191
JsonParse(t) ==
    IF Len(t) < 2 \/ t[1] # "{" THEN SyntaxError
    ELSE IF t = << "{", "}" >> THEN [ok |-> TRUE, data |-> <<>>, next |-> 3]
    ELSE ParseFields(t, 2, <<>>)

RECURSIVE HandleBlocks(_, _, _, _)
\* lines 174-222: the blocks of the chunk, in order; state is the processing
\* state so far and acted the events acted on so far
HandleBlocks(blocks, k, state, acted) ==
    IF k > Len(blocks) THEN [state |-> state, acted |-> acted]
    ELSE IF TrimText(blocks[k]) = <<>> THEN HandleBlocks(blocks, k + 1, state, acted)
    ELSE LET line == ReadLines(SplitLines(blocks[k]), 1, <<>>, <<>>)
             parsed == JsonParse(line.eventData)
             known == line.eventType \in { << "progress" >>, << "complete" >>, << "error" >> }
         IN  IF line.eventType # <<>> /\ line.eventData # <<>> /\ parsed.ok /\ known
             THEN HandleBlocks(blocks, k + 1,
                      IF line.eventType = << "progress" >> THEN "processing"
                      ELSE line.eventType[1],
                      Append(acted, [type |-> line.eventType[1], data |-> parsed.data]))
             ELSE HandleBlocks(blocks, k + 1, state, acted)

\* line 172 as the code would be if it emptied the buffer after each chunk
RemainderDropped(blocks) == <<>>
\* buffer = events.pop() || '', line 172
Remainder(blocks) == blocks[Len(blocks)]

\* the events of a job as the handler emits them
ProgressEvent(k, n, name) ==
    [type |-> "progress",
     data |-> << [key |-> "current", value |-> JsonNumber(k)],
                 [key |-> "total", value |-> JsonNumber(n)],
                 [key |-> "filename", value |-> JsonText(name)] >>]
CompleteEvent(n) ==
    [type |-> "complete",
     data |-> << [key |-> "zipBase64", value |-> JsonText(<< "UEsDBBQ" >>)],
                 [key |-> "totalProcessed", value |-> JsonNumber(n)] >>]
ErrorEvent(message) ==
    [type |-> "error", data |-> << [key |-> "message", value |-> JsonText(message)] >>]

\* the names of the documents in the events
WireNames ==
    { << "a", ".", "t", "x", "t" >>,
      << "a", LF, LF, "b" >>,
      << EAcute, Quote >>,
      << Backslash, "n" >> }
\* the most events of a stream
MaxEvents == 2
ProgressRun(names) == [k \in 1..Len(names) |-> ProgressEvent(k, MaxEvents, names[k])]
\* what the handler has emitted when the body ends: progress events, then a
\* complete or an error event, or no terminal event when the host has torn
\* the function down in its loop
Streams ==
    { ProgressRun(names) : names \in SeqsUpTo(WireNames, MaxEvents) }
    \cup { Append(ProgressRun(names), ErrorEvent(<< "Server", " ", "error", ":", " ", "x" >>)) :
               names \in SeqsUpTo(WireNames, MaxEvents - 1) }
    \cup { Append(ProgressRun(names), CompleteEvent(Len(names))) :
               names \in SeqsUpTo(WireNames, MaxEvents - 1) \ { <<>> } }

\* line 117
canStart == pageRulesSystem /\ pageFiles > 0

\* onFilesChange={setFiles}; the upload zone is disabled while processing
SetFiles ==
    /\ processingState # "processing"
    /\ pageFiles' = 1 - pageFiles
    /\ UNCHANGED << handler, abandoned, store, initialStore, ops, other >>
    /\ UNCHANGED << processingState, pageRulesSystem, reader, body, decoderPending, buffer, dispatched >>

\* handleReferenceUpload and handleReferenceClear on the first slot
SetRulesSystem ==
    /\ pageRulesSystem' = ~pageRulesSystem
    /\ UNCHANGED << handler, abandoned, store, initialStore, ops, other >>
    /\ UNCHANGED << processingState, pageFiles, reader, body, decoderPending, buffer, dispatched >>

\* lines 120-123: the Start button is rendered in state idle only
\* (ActionButtons lines 29-44); one handleStart runs at a time
handleStart ==
    /\ processingState = "idle"
    /\ reader \in { "none", "ended" }
    /\ canStart
    /\ processingState' = "preparing"
    /\ reader' = "fetching"
    /\ body' = NoBody
    /\ decoderPending' = <<>>
    /\ buffer' = <<>>
    /\ dispatched' = <<>>
    /\ UNCHANGED << handler, abandoned, store, initialStore, ops, other >>
    /\ UNCHANGED << pageFiles, pageRulesSystem >>

\* lines 138-158 and 225-229: fetch rejects, the response is not ok or has no
\* body
FetchFails ==
    /\ reader = "fetching"
    /\ processingState' = "error"
    /\ reader' = "ended"
    /\ UNCHANGED << handler, abandoned, store, initialStore, ops, other >>
    /\ UNCHANGED << pageFiles, pageRulesSystem, body, decoderPending, buffer, dispatched >>

\* lines 138-160: the response arrives with its body
FetchResolves ==
    /\ reader = "fetching"
    /\ \E emitted \in Streams :
          body' = [events |-> emitted, bytes |-> EncodeStream(emitted, Len(emitted)), pos |-> 0]
    /\ reader' = "open"
    /\ UNCHANGED << handler, abandoned, store, initialStore, ops, other >>
    /\ UNCHANGED << processingState, pageFiles, pageRulesSystem, decoderPending, buffer, dispatched >>

\* the longest of the short chunks
MaxChunk == 3
\* lines 163-223: reader.read() yields the next n bytes of the body
ReadChunk(n) ==
    /\ reader = "open"
    /\ n >= 1
    /\ body.pos + n <= Len(body.bytes)
    /\ LET value == SubSeq(body.bytes, body.pos + 1, body.pos + n)
           decoded == DecodeBytes(decoderPending \o value)
           blocks == SplitBlocks(buffer \o decoded.text)
           handled == HandleBlocks(SubSeq(blocks, 1, Len(blocks) - 1), 1,
                                   processingState, dispatched)
       IN  /\ decoderPending' = decoded.pending
           /\ buffer' = Remainder(blocks)
           /\ processingState' = handled.state
           /\ dispatched' = handled.acted
    /\ body' = [body EXCEPT !.pos = body.pos + n]
    /\ UNCHANGED << handler, abandoned, store, initialStore, ops, other >>
    /\ UNCHANGED << pageFiles, pageRulesSystem, reader >>

\* line 165: reader.read() yields done, the body has ended
ReadDone ==
    /\ reader = "open"
    /\ body.pos = Len(body.bytes)
    /\ reader' = "ended"
    /\ UNCHANGED << handler, abandoned, store, initialStore, ops, other >>
    /\ UNCHANGED << processingState, pageFiles, pageRulesSystem, body, decoderPending, buffer, dispatched >>

\* lines 163 and 225-229: reader.read() rejects
ReadError ==
    /\ reader = "open"
    /\ processingState' = "error"
    /\ reader' = "ended"
    /\ UNCHANGED << handler, abandoned, store, initialStore, ops, other >>
    /\ UNCHANGED << pageFiles, pageRulesSystem, body, decoderPending, buffer, dispatched >>

\* lines 256-263: the Reset button is rendered in complete and in error
\* (ActionButtons lines 106-113)
handleReset ==
    /\ processingState \in { "complete", "error" }
    /\ pageFiles' = 0
    /\ processingState' = "idle"
    /\ UNCHANGED << handler, abandoned, store, initialStore, ops, other >>
    /\ UNCHANGED << pageRulesSystem, reader, body, decoderPending, buffer, dispatched >>

\* the sizes of the chunks: short ones, and all that is left of the body
ChunkSizes == (1..MaxChunk) \cup { Len(body.bytes) - body.pos }

ClientNext ==
    \/ SetFiles
    \/ SetRulesSystem
    \/ handleStart
    \/ FetchFails
    \/ FetchResolves
    \/ \E n \in ChunkSizes : ReadChunk(n)
    \/ ReadDone
    \/ ReadError
    \/ handleReset

ClientInit ==
    /\ NoJob
    /\ Quiet
ClientSpec == ClientInit /\ [][ClientNext]_vars

\* ================================================================ claims
IsProgress(e, k, n, name) ==
    /\ e.type = "progress"
    /\ e.data.current = k
    /\ e.data.total = n
    /\ e.data.filename = name
IsTerminal(e) == e.type \in { "complete", "error" }
Terminals == { k \in 1..Len(events) : IsTerminal(events[k]) }
\* the job is over and every rewrite call has returned a success outcome
AllSucceeded ==
    /\ pc = "done"
    /\ lastCall # <<>>
    /\ Len(rewrittenFiles) = Len(reqFiles)
\* the rewrite call for the document in hand has returned a failure outcome
FailureReturned == result # <<>> /\ ~result[1].success

\* C1: a job of N documents whose rewrite calls all return success carries
\* exactly the events progress 1..N, each with total = N and the name of the
\* document at that position, then one complete event with totalProcessed = N.
C1_SuccessStream ==
    AllSucceeded =>
        LET N == Len(reqFiles)
        IN  /\ Len(events) = N + 1
            /\ \A k \in 1..N : IsProgress(events[k], k, N, reqFiles[k].name)
            /\ events[N + 1].type = "complete"
            /\ events[N + 1].data.totalProcessed = N
C1_Witness ==
    /\ AllSucceeded
    /\ Len(reqFiles) = 2
    /\ events[3].type = "complete"

\* C2: a job whose rewrite call for the document at index k returns a failure
\* outcome carries exactly the events progress 1..k, then one error event with
\* failedAt = k and the name of document k, and nothing after it.
C2_FailureStream ==
    (pc = "done" /\ FailureReturned) =>
        LET k == lastCall[1].doc
            N == Len(reqFiles)
        IN  /\ Len(events) = k + 1
            /\ \A j \in 1..k : IsProgress(events[j], j, N, reqFiles[j].name)
            /\ events[k + 1].type = "error"
            /\ events[k + 1].data.failedAt = k
            /\ events[k + 1].data.filename = reqFiles[k].name
            /\ closed
C2_Witness ==
    /\ pc = "done"
    /\ FailureReturned
    /\ lastCall[1].doc = 2
    /\ Len(reqFiles) = 2
    /\ Len(events) = 3

\* C3: at most one terminal event (complete or error) is ever on the stream,
\* it is the last event of the stream, and the stream is closed once it is
\* there.
C3_OneTerminal ==
    /\ Cardinality(Terminals) <= 1
    /\ Terminals # {} => (Terminals = { Len(events) } /\ closed)
    /\ closed => pc = "done"
C3_Witness ==
    /\ Len(events) = 2
    /\ events[2].type = "error"
    /\ closed

C5_FailFast ==
    [][FailureReturned =>
          /\ lastCall' = lastCall
          /\ lastCall[1].doc = i + 1
          /\ i' = i
          /\ pc' = "done"
          /\ closed']_vars
C5_Witness ==
    /\ FailureReturned
    /\ pc = "done"
    /\ lastCall[1].doc = 1
    /\ Len(reqFiles) = 2

\* C6: a complete event (and with it an archive) is on the stream only when
\* every document of the job has been rewritten; when the job has failed no
\* event carries an archive or a rewritten content.
C6_NoPartialArchive ==
    /\ \A k \in 1..Len(events) :
          events[k].type = "complete" =>
              /\ Len(rewrittenFiles) = Len(reqFiles)
              /\ Len(reqFiles) > 0
              /\ ~FailureReturned
    /\ FailureReturned =>
          \A k \in 1..Len(events) :
              \/ events[k].type = "progress"
                 /\ DOMAIN events[k].data = { "current", "total", "filename" }
              \/ events[k].type = "error"
                 /\ DOMAIN events[k].data = { "message", "failedAt", "filename" }
C6_Witness ==
    /\ FailureReturned
    /\ pc = "done"
    /\ Len(rewrittenFiles) = 1
    /\ rewrittenFiles[1].content = CanonText
    /\ Len(events) = 3

\* C7: the archive of a complete event decompresses to one entry per
\* rewritten document, in number equal to totalProcessed, the entries having
\* the names and the contents of the rewritten documents.
C7_ArchiveRoundTrip ==
    \A k \in 1..Len(events) :
        events[k].type = "complete" =>
            LET entries == Decompress(events[k].data.zipBase64)
            IN  /\ Len(entries) = Len(rewrittenFiles)
                /\ Len(entries) = events[k].data.totalProcessed
                /\ \A j \in 1..Len(rewrittenFiles) :
                      \E e \in 1..Len(entries) :
                          /\ entries[e].name = rewrittenFiles[j].name
                          /\ entries[e].content = rewrittenFiles[j].content

\* the admission constraints of the Validation Gate, as the claims state them
PrimaryPresent == reqReferences.rulesSystem # <<>>
CountInRange == 1 <= Len(reqFiles) /\ Len(reqFiles) <= 200
AllAccepted ==
    \A k \in 1..Len(reqFiles) : EndsWith(ToLowerCase(reqFiles[k].name), <<".", "t", "x", "t">>)
AllNonEmpty ==
    \A k \in 1..Len(reqFiles) : reqFiles[k].content.len > 0 /\ reqFiles[k].content.ch # " "
SizeInRange == totalSize(reqFiles) <= 10 * 1024 * 1024
Admissible == PrimaryPresent /\ CountInRange /\ AllAccepted /\ AllNonEmpty /\ SizeInRange
\* the request has come through the credential check and the parsing, and the
\* handler has run up to its first remote call or to its end
GateDecided ==
    /\ apiKeyConfigured
    /\ bodyKind = "ok"
    /\ pc \in { "calling", "sleeping", "resolved", "zip", "done" }
Admitted ==
    /\ Len(events) > 0
    /\ events[1].type = "progress"
    /\ lastCall # <<>>

\* C8: a batch is admitted (a first progress event, a remote call) exactly
\* when the primary reference is present, it has 1 to 200 documents, every
\* name has the accepted extension, every trimmed content is non-empty and the
\* contents add up to at most 10 MiB.
C8_AdmissionIff ==
    /\ Admitted => Admissible
    /\ GateDecided => (Admissible => Admitted)
    /\ (GateDecided /\ Len(reqFiles) \in { 0, 201 }) => ~Admitted
    /\ (GateDecided /\ PrimaryPresent /\ Len(reqFiles) = 200) => Admitted
    /\ (GateDecided /\ PrimaryPresent /\ AllAccepted /\ AllNonEmpty /\ Len(reqFiles) = 2
          /\ totalSize(reqFiles) = 10 * 1024 * 1024) => Admitted
C8_Witness ==
    /\ GateDecided
    /\ Admitted
    /\ Len(reqFiles) = 200
    /\ pc = "done"

\* the error of the earliest violated check, in the order of the gate
EarliestViolation ==
    IF ~PrimaryPresent THEN "Rules System reference is required. Please upload it to Slot 1."
    ELSE IF Len(reqFiles) = 0 THEN "No files provided"
    ELSE IF Len(reqFiles) > 200 THEN "Too many files. Maximum is {MAX_FILES}, got {n}"
    ELSE IF ~AllAccepted THEN "Invalid file types: {names}. Only .txt files are accepted."
    ELSE IF ~AllNonEmpty THEN "Empty files detected: {names}"
    ELSE "Total file size too large. Maximum is 10MB, got {sizeMB}MB"

\* C9: a batch that violates constraints is reported with exactly one error,
\* that of the earliest violated check in the order reference, count,
\* extension, empty content, total size.
C9_CheckOrder ==
    (GateDecided /\ ~Admissible) =>
        /\ Len(events) = 1
        /\ events[1].type = "error"
        /\ events[1].data.message.text = EarliestViolation
C9_Witness ==
    /\ GateDecided
    /\ PrimaryPresent
    /\ Len(reqFiles) = 2
    /\ ~AllAccepted
    /\ ~AllNonEmpty
    /\ totalSize(reqFiles) > 10 * 1024 * 1024
    /\ Len(events) = 1

\* C10: a batch rejected by validation never starts: no progress event and no
\* remote call at any time, and its stream ends closed with the single error
\* event, which has neither failedAt nor filename.
C10_RejectedNeverStarts ==
    (bodyKind = "ok" /\ ~Admissible) =>
        /\ lastCall = <<>>
        /\ \A k \in 1..Len(events) : events[k].type = "error"
        /\ (apiKeyConfigured /\ pc = "done") =>
              /\ Len(events) = 1
              /\ DOMAIN events[1].data = { "message" }
              /\ closed
C10_Witness ==
    /\ bodyKind = "ok"
    /\ apiKeyConfigured
    /\ PrimaryPresent
    /\ Len(reqFiles) = 1
    /\ ~AllNonEmpty
    /\ reqFiles[1].content.len = 2
    /\ pc = "done"
    /\ closed

\* the credential is absent, empty, the placeholder of .env.local, or not a
\* key of the remote service by its prefix
KeyMissingOrMalformed ==
    \/ apiKey = <<>>
    \/ apiKey[1].prefix # "sk-ant-"
    \/ apiKey[1].rest = "YOUR_API_KEY_HERE"
ConfigurationErrorText ==
    "Anthropic API key is not configured. Please add your API key to .env.local"
IsConfigurationError(e) ==
    /\ e.type = "error"
    /\ DOMAIN e.data = { "message" }
    /\ e.data.message = [text |-> ConfigurationErrorText]
NoProgressNoCall ==
    /\ lastCall = <<>>
    /\ pending = {}
    /\ \A k \in 1..Len(events) : events[k].type # "progress"
    /\ pc = "done" => Len(events) = 1 /\ IsConfigurationError(events[1]) /\ closed

\* C11 (as the code has it): a credential that is missing, empty, the
\* placeholder or without the prefix of the remote service is detected before
\* the first remote call: the stream carries one error event with the
\* configuration-error reason, which no other failure carries, no progress
\* event, and no call of the remote service is made.
C11_MalformedKeyRejected ==
    /\ KeyMissingOrMalformed => NoProgressNoCall
    /\ \A k \in 1..Len(events) : IsConfigurationError(events[k]) => KeyMissingOrMalformed
C11_Witness ==
    /\ apiKey = Key("sk-ant-", "YOUR_API_KEY_HERE")
    /\ pc = "done"
    /\ bodyKind = "ok"
    /\ Admissible
    /\ Len(events) = 1
    /\ IsConfigurationError(events[1])
\* C11 (as stated): every credential the remote service does not accept is
\* detected before the first remote call, with no progress event and no call.
C11_InvalidKeyRejected ==
    apiKey \notin AcceptedKeys => NoProgressNoCall

\* the errors the retry logic holds transient
TransientSignatures ==
    { "overloaded", "Overloaded", "529", "503", "rate_limit", "timeout", "econnreset",
      "socket hang up" }
IsTransient(message) == \E k \in 1..Len(message) : message[k] \in TransientSignatures

\* C12: one call of rewriteDocument invokes the remote service at most 5
\* times: a transient failure on attempt k < 5 is followed by attempt k + 1, a
\* text response on attempt k <= 5 returns success with that text and no
\* further attempt, and a failure on attempt 5 returns failure, never a 6th.
C12_AtMostFiveAttempts ==
    [][ /\ attempt' <= 5
        /\ lastCall' # <<>> => lastCall'[1].attempt <= 5
        /\ (pc = "calling" /\ pc' = "sleeping") =>
               attempt < 5 /\ answer' = "error" /\ IsTransient(lastError'[1])
        /\ (pc = "calling" /\ answer' = "error" /\ IsTransient(lastError'[1]) /\ attempt < 5) =>
               pc' = "sleeping"
        /\ pc = "sleeping" =>
               /\ pc' = "calling"
               /\ attempt' = attempt + 1
               /\ lastCall'[1].attempt = attempt + 1
               /\ lastCall'[1].doc = lastCall[1].doc
        /\ (pc = "calling" /\ answer' = "text") =>
               /\ pc' = "resolved"
               /\ result' # <<>>
               /\ result'[1].success
               /\ result'[1].content \in { << t >> : t \in Texts }
               /\ lastCall' = lastCall
        /\ (pc = "calling" /\ attempt = 5 /\ answer' = "error") =>
               /\ pc' = "resolved"
               /\ result' # <<>>
               /\ ~result'[1].success
        /\ pc = "resolved" => lastCall' = lastCall /\ pc' # "calling"
      ]_vars
C12_Witness ==
    /\ pc = "resolved"
    /\ attempt = 5
    /\ lastCall[1].attempt = 5
    /\ FailureReturned
    /\ IsTransient(lastError[1])

\* C13 (as the code has it): the sleep after failed attempt k, which precedes
\* attempt k + 1, lasts between 2000 * 2^(k-1) and 2000 * 2^(k-1) + 1000 ms
\* and never more than 61000 ms; attempt k + 1 is issued only by the
\* continuation of that sleep, and attempt 1 follows no sleep.
C13_DelayAfterAttempt ==
    [][ lastCall' # lastCall =>
            LET k == lastCall'[1].attempt - 1
            IN  IF k = 0
                THEN pc = "loop" /\ delay' = 0
                ELSE /\ pc = "sleeping"
                     /\ delay' = delay
                     /\ delay >= 2000 * (2 ^ (k - 1))
                     /\ delay <= 2000 * (2 ^ (k - 1)) + 1000
                     /\ delay <= 61000
      ]_vars
C13_Witness ==
    /\ pc = "calling"
    /\ attempt = 5
    /\ lastCall[1].attempt = 5
    /\ delay = 16999
\* C13 (as stated): the sleep that precedes attempt k lasts between
\* 2000 * 2^(k-1) and 2000 * 2^(k-1) + 1000 ms.
C13_DelayBeforeAttempt ==
    [][ (lastCall' # lastCall /\ lastCall'[1].attempt > 1) =>
            LET k == lastCall'[1].attempt
            IN  /\ pc = "sleeping"
                /\ delay >= 2000 * (2 ^ (k - 1))
                /\ delay <= 2000 * (2 ^ (k - 1)) + 1000
                /\ delay <= 61000
      ]_vars

\* C14: at most one rewrite call is unsettled at any time, and the call for
\* a document is issued only when no call is unsettled and the call for the
\* document before it, with its retries and sleeps, has returned success.
C14_StrictlySerial ==
    [][ /\ Cardinality(pending') <= 1
        /\ pc \in { "calling", "sleeping" } => pending = { lastCall[1].doc }
        /\ (lastCall' # lastCall /\ lastCall'[1].attempt = 1) =>
               /\ pending = {}
               /\ pc \notin { "calling", "sleeping", "resolved" }
               /\ Len(rewrittenFiles) = lastCall'[1].doc - 1
               /\ lastCall'[1].doc > 1 =>
                      /\ lastCall # <<>>
                      /\ lastCall[1].doc = lastCall'[1].doc - 1
      ]_vars
C14_Witness ==
    /\ pc = "calling"
    /\ lastCall[1].doc = 2
    /\ attempt = 2
    /\ pending = { 2 }

\* C15: the validation gate changes nothing it is given and writes nothing: the
\* documents and references of the request are the same after it, an admitted
\* batch goes on as the very documents received, and a rejection leaves the
\* accumulator and the locals of the job empty and the stream with nothing
\* but the one error event.
C15_ValidationPure ==
    [][ /\ reqFiles' = reqFiles
        /\ reqReferences' = reqReferences
        /\ pc = "validate" =>
               /\ rewrittenFiles' = <<>>
               /\ lastCall' = <<>>
               /\ pending' = {}
               /\ IF pc' = "done"
                  THEN /\ validFiles' = <<>>
                       /\ systemPrompt' = <<>>
                       /\ i' = 0
                       /\ Len(events') = 1
                       /\ events'[1].type = "error"
                       /\ DOMAIN events'[1].data = { "message" }
                  ELSE /\ validFiles' = reqFiles
                       /\ events' = <<>>
      ]_vars
C15_Witness ==
    /\ pc = "done"
    /\ GateDecided
    /\ PrimaryPresent
    /\ Len(reqFiles) = 2
    /\ ~AllNonEmpty
    /\ validFiles = <<>>
    /\ rewrittenFiles = <<>>
    /\ Len(events) = 1

\* C16: an error that is not transient ends the rewrite call on the attempt
\* that met it, the first or a later one: failure is returned with no sleep
\* and no further invocation of the remote service.
C16_NonRetryableStops ==
    [][ /\ (pc = "calling" /\ answer' = "error" /\ ~IsTransient(lastError'[1])) =>
               /\ pc' = "resolved"
               /\ result' # <<>>
               /\ ~result'[1].success
               /\ delay' = delay
               /\ attempt' = attempt
               /\ lastCall' = lastCall
        /\ (pc = "resolved" /\ answer = "error") =>
               /\ pc' = "done"
               /\ lastCall' = lastCall
               /\ attempt' = attempt
      ]_vars
C16_Witness ==
    /\ pc = "done"
    /\ answer = "error"
    /\ attempt = 3
    /\ lastCall[1].attempt = 3
    /\ ~IsTransient(lastError[1])
    /\ FailureReturned

\* C17: a response without a text block makes the rewrite call return failure
\* at once, with no sleep and no further attempt though fewer than 5 were
\* made, and the job fails at that document.
C17_NoTextFailsAtOnce ==
    [][ /\ (pc = "calling" /\ answer' = "noText") =>
               /\ pc' = "resolved"
               /\ result' = << Failure([text |-> "No text content in Claude response"]) >>
               /\ delay' = delay
               /\ attempt' = attempt
               /\ lastCall' = lastCall
        /\ (pc = "resolved" /\ answer = "noText") =>
               /\ pc' = "done"
               /\ closed'
               /\ lastCall' = lastCall
               /\ events' = Append(events, events'[Len(events')])
               /\ events'[Len(events')].type = "error"
               /\ events'[Len(events')].data.failedAt = lastCall[1].doc
               /\ events'[Len(events')].data.message = [text |-> "No text content in Claude response"]
      ]_vars
C17_Witness ==
    /\ pc = "done"
    /\ answer = "noText"
    /\ attempt = 2
    /\ lastCall[1].doc = 2
    /\ events[Len(events)].type = "error"

ProgressEvents == { k \in 1..Len(events) : events[k].type = "progress" }

\* C18: the orchestrator sends one progress event, with current the 1-based
\* index of the document, in the step that issues the rewrite call for it;
\* retries and sleeps send nothing; progress events and rewrite calls
\* correspond one to one in order, and the first event of an admitted job is
\* the progress event of document 1.
C18_ProgressPerCall ==
    [][ /\ lastCall' # lastCall =>
               IF lastCall'[1].attempt = 1
               THEN /\ Len(events') = Len(events) + 1
                    /\ events' = Append(events, events'[Len(events')])
                    /\ IsProgress(events'[Len(events')], lastCall'[1].doc, Len(reqFiles),
                                  reqFiles[lastCall'[1].doc].name)
               ELSE events' = events
        /\ (Len(events') > Len(events) /\ events'[Len(events')].type = "progress") =>
               /\ lastCall' # lastCall
               /\ lastCall'[1].attempt = 1
               /\ lastCall'[1].doc = events'[Len(events')].data.current
        /\ pc \in { "calling", "sleeping" } => events' = events
        /\ Cardinality(ProgressEvents) = (IF lastCall = <<>> THEN 0 ELSE lastCall[1].doc)
        /\ lastCall # <<>> => IsProgress(events[1], 1, Len(reqFiles), reqFiles[1].name)
      ]_vars
C18_Witness ==
    /\ pc = "calling"
    /\ attempt = 3
    /\ lastCall[1].doc = 2
    /\ Len(events) = 2
    /\ Cardinality(ProgressEvents) = 2

\* C19: the accumulator grows only by the success of the rewrite call in hand,
\* at its end, by the name of the input document at that position and the
\* content the call returned; after j successes it holds j documents in input
\* order; the input documents are never changed.
C19_AccumulatorMirrorsInput ==
    [][ /\ reqFiles' = reqFiles
        /\ validFiles # <<>> => validFiles' = validFiles /\ validFiles = reqFiles
        /\ Len(rewrittenFiles) = i
        /\ \A p \in 1..Len(rewrittenFiles) : rewrittenFiles[p].name = reqFiles[p].name
        /\ rewrittenFiles' # rewrittenFiles =>
               /\ pc = "resolved"
               /\ result[1].success
               /\ rewrittenFiles' = Append(rewrittenFiles,
                      [name |-> reqFiles[Len(rewrittenFiles) + 1].name,
                       content |-> result[1].content[1]])
        /\ (pc = "resolved" /\ result[1].success) => Len(rewrittenFiles') = Len(rewrittenFiles) + 1
      ]_vars
C19_Witness ==
    /\ Len(rewrittenFiles) = 2
    /\ rewrittenFiles[1].name = reqFiles[1].name
    /\ rewrittenFiles[2].name = reqFiles[2].name
    /\ rewrittenFiles[1].name # rewrittenFiles[2].name
    /\ rewrittenFiles[1].content = Str("z", 2)
    /\ rewrittenFiles[2].content = CanonText
    /\ reqFiles[1].content = reqFiles[2].content

\* the job has ended: Completed with a complete event, Failed with an error
Completed == pc = "done" /\ events # <<>> /\ events[Len(events)].type = "complete"

\* C20: the loop index stays within 0..total and never decreases; it grows,
\* by one, exactly in the step that takes a success of the rewrite call; when
\* the job has failed it stays at the 0-based index of the failing document;
\* it is total when the job has completed; an ended job takes no further step.
C20_CursorMonotone ==
    [][ /\ 0 <= i'
        /\ i' <= Len(validFiles')
        /\ i' \in { i, i + 1 }
        /\ (i' = i + 1) <=> (pc = "resolved" /\ result[1].success)
        /\ pc = "done" => vars' = vars
        /\ Completed' => i' = Len(validFiles') /\ i' = Len(reqFiles)
        /\ (pc' = "done" /\ result' # <<>> /\ ~result'[1].success) =>
               i' = lastCall'[1].doc - 1 /\ i' < Len(validFiles')
      ]_vars
C20_Witness ==
    /\ pc = "done"
    /\ FailureReturned
    /\ i = 1
    /\ lastCall[1].doc = 2
    /\ Len(validFiles) = 2
    /\ Len(rewrittenFiles) = 1

\* C21 (as stated): once the caller has abandoned the stream no further remote
\* call is issued, for the document in hand or a later one, and no backoff
\* sleep is begun.
C21_AbandonStopsCalls ==
    [][ abandoned => (lastCall' = lastCall /\ pc' # "sleeping" /\ delay' = delay) ]_vars

\* C25 (as stated): every remote invocation of a job names the model of the
\* request, and the default model when the request names none.
C25_RequestModelUsed ==
    lastCall # <<>> =>
        lastCall[1].model = (IF reqModel # <<>> THEN reqModel[1] ELSE "claude-sonnet-4-20250514")

\* C30 (as stated): a failure reason that says the call failed after 5
\* attempts is returned only when 5 attempts were made for that document, and
\* every failure outcome has a reason.
C30_AttemptsReported ==
    FailureReturned =>
        /\ result[1].error # <<>>
        /\ "attempts" \in DOMAIN result[1].error[1] =>
               /\ result[1].error[1].attempts = 5
               /\ attempt = 5
               /\ lastCall[1].attempt = 5

IsServerError(e) ==
    /\ e.type = "error"
    /\ DOMAIN e.data = { "message" }
    /\ e.data.message.text = "Server error: {errorMessage}"

\* C22: an exception raised while a job is served (the body cannot be
\* parsed, the files or the references field is missing, the assembly of the
\* archive fails) is caught: the stream gets exactly one error event, which
\* is its last and only terminal event, and is then closed by
\* controller.close(); the handler never ends with the stream left open.
C22_FaultsTranslated ==
    [][ /\ pc' = "done" =>
               /\ closed'
               /\ events' # <<>>
               /\ IsTerminal(events'[Len(events')])
               /\ \A k \in 1..(Len(events') - 1) : ~IsTerminal(events'[k])
        /\ (pc = "parse" /\ bodyKind = "unparseable") =>
               pc' = "done" /\ Len(events') = 1 /\ IsServerError(events'[1])
        /\ (pc = "validate" /\ bodyKind = "noReferences") =>
               pc' = "done" /\ Len(events') = 1 /\ IsServerError(events'[1])
        /\ (pc = "validate" /\ bodyKind = "noFiles" /\ reqReferences.rulesSystem # <<>>) =>
               pc' = "done" /\ Len(events') = 1 /\ IsServerError(events'[1])
        /\ pc = "zip" =>
               /\ pc' = "done"
               /\ Len(events') = Len(events) + 1
               /\ \/ events'[Len(events')].type = "complete"
                  \/ IsServerError(events'[Len(events')])
      ]_vars
C22_Witness ==
    /\ pc = "done"
    /\ closed
    /\ Len(rewrittenFiles) = 2
    /\ Len(events) = 3
    /\ IsServerError(events[3])
    /\ events[3].data.message.detail = "archive"

\* C23: the system prompt is built once, from the references of the request,
\* before the first document, and every remote call of the job, first
\* attempts and retries, is given that same prompt, whatever is saved to or
\* cleared from the reference storage while the job runs.
C23_SnapshotFixed ==
    [][ /\ reqReferences' = reqReferences
        /\ systemPrompt # <<>> => systemPrompt' = systemPrompt
        /\ lastCall' # <<>> =>
               /\ lastCall'[1].system = systemPrompt'
               /\ lastCall'[1].system = buildSystemPrompt(reqReferences)
        /\ (lastCall # <<>> /\ lastCall' # <<>>) => lastCall'[1].system = lastCall[1].system
      ]_vars
C23_Witness ==
    /\ pc = "calling"
    /\ lastCall[1].doc = 2
    /\ ops["r1"].pc = "done"
    /\ ops["r1"].req.kind = "clear"
    /\ store.rulesSystem = <<>>
    /\ reqReferences.rulesSystem # <<>>
    /\ lastCall[1].system = buildSystemPrompt(FullRefs)

AllServed == \A r \in Requesters : ops[r].pc = "done"

\* C26 (as stated): when the concurrent saveReference and clearReference calls
\* on different slots have all finished, each slot written holds the record
\* last written to it and a slot no call named is as it was.
C26_NoLostUpdate ==
    (AllServed /\ ops["r1"].req.slot # ops["r2"].req.slot) =>
        /\ \A r \in Requesters : store[ops[r].req.slot[1]] = Written(r)
        /\ \A n \in SlotNames :
              (\A r \in Requesters : ops[r].req.slot[1] # n) => store[n] = initialStore[n]

\* a save request that passes every check of the claim
Acceptable(req) ==
    /\ req.kind = "save"
    /\ req.slot # <<>>
    /\ req.slot[1] \in { "rulesSystem", "rewriteGuide", "staffDocs" }
    /\ req.content # <<>>
    /\ req.content[1].type = "string"
    /\ req.content[1].value.len > 0
    /\ req.content[1].value.ch # " "
    /\ req.content[1].value.len <= 1024 * 1024
    /\ req.filename # <<>>
    /\ req.filename[1].type = "string"
    /\ \/ EndsWith(ToLowerCase(req.filename[1].value), << ".", "m", "d" >>)
       \/ EndsWith(ToLowerCase(req.filename[1].value), << ".", "t", "x", "t" >>)

\* C27: a save request that fails a check (slot name, content or filename
\* missing or not a string, extension, empty trimmed content, more than 1 MiB)
\* is answered with an error and the stored slots stay as they were; the store
\* changes only in the write of a request that passed every check, and then
\* only in the slot it names, which gets the content and filename sent.
C27_RejectedSaveWritesNothing ==
    [][ /\ \A r \in Requesters :
              LET req == ops[r].req
              IN  /\ (ops[r].pc = "received" /\ ~Acceptable(req) /\ ops'[r] # ops[r]) =>
                         /\ ops'[r].pc = "done"
                         /\ ops'[r].response # <<>>
                         /\ ops'[r].response[1].status \in { 400, 500 }
                         /\ "error" \in DOMAIN ops'[r].response[1]
                         /\ store' = store
                  /\ (req.kind # "none" /\ ~Acceptable(req)) => store' = initialStore
                  /\ (ops[r].pc = "received" /\ Acceptable(req) /\ ops'[r] # ops[r]) =>
                         ops'[r].pc = "load"
        /\ store' # store =>
               \E r \in Requesters :
                   LET req == ops[r].req
                   IN  /\ Acceptable(req)
                       /\ ops[r].pc = "write"
                       /\ ops'[r].pc = "done"
                       /\ ops'[r].response[1].status = 200
                       /\ \A n \in SlotNames \ { req.slot[1] } : store'[n] = store[n]
                       /\ store'[req.slot[1]] # <<>>
                       /\ store'[req.slot[1]][1].content = req.content[1].value
                       /\ store'[req.slot[1]][1].filename = req.filename[1].value
      ]_vars
C27_Witness ==
    /\ ops["r1"].pc = "done"
    /\ ops["r1"].req.kind = "save"
    /\ ops["r1"].req.slot = << "rewriteGuide" >>
    /\ ops["r1"].req.content = JsString(Str("x", 1024 * 1024 + 1))
    /\ ops["r1"].req.filename = JsString(<< "r", ".", "m", "d" >>)
    /\ ops["r1"].response[1].status = 400
    /\ store = FullRefs

\* what a job has accumulated and emitted comes from its own documents, in
\* their order, and from the texts its own calls were answered with
OwnOnly(files, cursor, acc, emitted, texts) ==
    /\ cursor = Len(acc)
    /\ Len(acc) <= Len(files)
    /\ \A k \in 1..Len(acc) : acc[k].name = files[k].name /\ acc[k].content \in texts
    /\ \A n \in 1..Len(emitted) :
          LET e == emitted[n]
          IN  /\ e.type = "progress" =>
                    /\ e.data.current \in 1..Len(files)
                    /\ e.data.total = Len(files)
                    /\ e.data.filename = files[e.data.current].name
              /\ (e.type = "error" /\ "failedAt" \in DOMAIN e.data) =>
                    /\ e.data.failedAt = cursor + 1
                    /\ e.data.filename = files[cursor + 1].name
              /\ e.type = "complete" =>
                    /\ e.data.totalProcessed = Len(files)
                    /\ Len(Decompress(e.data.zipBase64)) <= Len(files)
                    /\ \A entry \in { Decompress(e.data.zipBase64)[k] :
                                        k \in 1..Len(Decompress(e.data.zipBase64)) } :
                          /\ entry.content \in texts
                          /\ \E k \in 1..Len(files) : files[k].name = entry.name

\* C24: with the steps of two jobs interleaved, a step of one job leaves the
\* accumulator, the cursor and the events of the other as they were, and each
\* job's accumulator, cursor, events and archive hold only its own documents
\* and the texts its own calls returned.
C24_JobsIsolated ==
    [][ /\ other' # other => UNCHANGED << validFiles, i, rewrittenFiles, events, closed, pc >>
        /\ << validFiles, i, rewrittenFiles, events, closed, pc >>'
              # << validFiles, i, rewrittenFiles, events, closed, pc >> => other' = other
        /\ pc' \in { "loop", "calling", "sleeping", "resolved", "zip", "done" } =>
              OwnOnly(validFiles', i', rewrittenFiles', events', Texts)
        /\ OwnOnly(other'.validFiles, other'.i, other'.rewrittenFiles, other'.events,
                   { OtherText })
      ]_vars
C24_Witness ==
    /\ pc = "calling"
    /\ other.pc = "calling"
    /\ Len(rewrittenFiles) = 1
    /\ Len(other.rewrittenFiles) = 1
    /\ validFiles[1].name = other.validFiles[1].name
    /\ rewrittenFiles[1].content # other.rewrittenFiles[1].content

\* the changes of the processing state the claim allows
AllowedChanges ==
    { << "idle", "preparing" >>, << "preparing", "processing" >>,
      << "preparing", "error" >>, << "processing", "complete" >>,
      << "processing", "error" >>, << "complete", "idle" >>, << "error", "idle" >> }

\* C28 (as stated): a job starts only in idle with the primary reference and
\* a file; the state changes only along idle, preparing, processing, then
\* complete or error, and back to idle by Reset; and when the read loop of
\* handleStart ends, by the end of the body or by a read error, the state is
\* not left in preparing or processing.
C28_ClientStateMachine ==
    [][ /\ processingState' # processingState =>
               << processingState, processingState' >> \in AllowedChanges
        /\ (processingState # "preparing" /\ processingState' = "preparing") =>
               (processingState = "idle" /\ pageRulesSystem /\ pageFiles >= 1)
        /\ (reader = "open" /\ reader' = "ended") =>
               processingState' \notin { "preparing", "processing" }
      ]_vars

\* the events whose frame lies wholly in the bytes read so far
FramesRead ==
    Cardinality({ k \in 1..Len(body.events) : Len(EncodeStream(body.events, k)) <= body.pos })

\* C29: however the bytes of the emitted events are cut into chunks, the
\* events the client has acted on are the emitted events whose frames have
\* been read, each once, in order, with the type and the data emitted; when
\* the whole body has been read they are all the emitted events.
C29_ChunkingIndependent ==
    /\ dispatched = SubSeq(body.events, 1, FramesRead)
    /\ body.pos = Len(body.bytes) => dispatched = body.events
C29_Witness ==
    /\ reader = "open"
    /\ Len(body.events) = 2
    /\ body.pos = Len(body.bytes) - 1
    /\ buffer # <<>>
    /\ buffer[Len(buffer)] = LF
    /\ decoderPending = <<>>
    /\ dispatched = << body.events[1] >>
    /\ body.events[2].type = "progress"
    /\ dispatched[1].data[3].value.text = << "a", LF, LF, "b" >>
    /\ body.events[2].data[3].value.text = << EAcute, Quote >>

====
